---- MODULE Spec2Model ----
(***************************************************************************)
(* RSA key setup of the nrf_oberon library (occ_rsa_key.h).                *)
(*                                                                         *)
(* One key structure of one of the six structure types is owned by a       *)
(* caller, who calls the init function of that type any number of times    *)
(* with big-endian byte buffers.  A uint32_t is modelled as the tuple of   *)
(* its four bytes, least significant byte first, so that no word value     *)
(* exceeds the range of the model checker's integers.                      *)
(***************************************************************************)
EXTENDS Integers, Sequences, FiniteSets, TLC

\* Largest number of leading zero bytes the caller puts before a value.
MaxLead == 1

\* ------------------------------------------------------------------------
\* Constants and types of occ_rsa_key.h
\* ------------------------------------------------------------------------
PUB_EXP == 65537

\* uint8_t has 8 bits, uint32_t has 4 bytes.
ByteBits == 8
WordBytes == 4

\* "@returns 0 Otherwise" and "@retruns -1 If the input length is not correct"
RET_ERR == -1
\* Slip: the successful path returns the error value.
RET_OK_asErr == RET_ERR
RET_OK == 0

\* The structure types: field name |-> number of uint32_t words.
\* Slips in the array sizes: the modulus of the 1024-bit public key with the
\* size of the 2048-bit one; an exponent one word short or one word long; a
\* coefficient one word long; the 2048-bit exponent with the size of the
\* 1024-bit one; a 2048-bit coefficient that was not doubled.
occ_rsa1024_pub_key_n64 == [n |-> 64]
occ_rsa1024_key_d31 == [n |-> 32, d |-> 31]
occ_rsa1024_key_d33 == [n |-> 32, d |-> 33]
occ_rsa1024_crt_key_qinv17 ==
    [n |-> 32, p |-> 16, q |-> 16, dp |-> 16, dq |-> 16, qinv |-> 17]
occ_rsa2048_key_d32 == [n |-> 64, d |-> 32]
occ_rsa2048_key_d63 == [n |-> 64, d |-> 63]
occ_rsa2048_crt_key_qinv16 ==
    [n |-> 64, p |-> 32, q |-> 32, dp |-> 32, dq |-> 32, qinv |-> 16]

occ_rsa1024_pub_key == [n |-> 32]
occ_rsa1024_key == [n |-> 32, d |-> 32]
occ_rsa1024_crt_key ==
    [n |-> 32, p |-> 16, q |-> 16, dp |-> 16, dq |-> 16, qinv |-> 16]
occ_rsa2048_pub_key == [n |-> 64]
occ_rsa2048_key == [n |-> 64, d |-> 64]
occ_rsa2048_crt_key ==
    [n |-> 64, p |-> 32, q |-> 32, dp |-> 32, dq |-> 32, qinv |-> 32]

Kinds == {"pub1024", "key1024", "crt1024", "pub2048", "key2048", "crt2048"}

Layout(kd) ==
    CASE kd = "pub1024" -> occ_rsa1024_pub_key
      [] kd = "key1024" -> occ_rsa1024_key
      [] kd = "crt1024" -> occ_rsa1024_crt_key
      [] kd = "pub2048" -> occ_rsa2048_pub_key
      [] kd = "key2048" -> occ_rsa2048_key
      [] kd = "crt2048" -> occ_rsa2048_crt_key

\* A structure of type kd whose every byte is g (0: zero-initialized,
\* anything else: what happened to be in the memory).
Fresh(kd, g) ==
    [f \in DOMAIN Layout(kd) |->
        [i \in 1..Layout(kd)[f] |-> [j \in 1..WordBytes |-> g]]]

\* Slips in the width rule: the primes checked like the exponents, and
\* every field checked like the modulus.
ExactFields_onlyModulus == {"n"}
ExactFields_all == {"n", "p", "q", "d", "dp", "dq", "qinv"}

\* The fields that "Must be exactly" N bits; the others must be <= N bits.
ExactFields == {"n", "p", "q"}

\* ------------------------------------------------------------------------
\* Byte-to-word importer
\* ------------------------------------------------------------------------
\* Index of the first byte of b that is not zero, Len(b) + 1 if there is none.
first_nonzero(b) ==
    LET nz == {i \in 1..Len(b) : b[i] # 0}
    IN  IF nz = {} THEN Len(b) + 1
        ELSE CHOOSE i \in nz : \A j \in nz : i <= j

RECURSIVE byte_bits(_)
byte_bits(x) == IF x = 0 THEN 0 ELSE 1 + byte_bits(x \div 2)

\* Bit length of the big-endian number in b, leading zero bytes stripped.
bit_length(b) ==
    LET i == first_nonzero(b)
    IN  IF i > Len(b) THEN 0
        ELSE ByteBits * (Len(b) - i) + byte_bits(b[i])

\* The length check of one field with a destination of w words.
import_ok(b, w, exact) ==
    /\ Len(b) <= WordBytes * w
    /\ IF exact
       THEN bit_length(b) = ByteBits * WordBytes * w
       ELSE bit_length(b) <= ByteBits * WordBytes * w

\* The w words of the number in b: least significant word first, each word
\* least significant byte first, zero above the supplied bytes.
to_words(b, w) ==
    [i \in 1..w |->
        [j \in 1..WordBytes |->
            LET s == WordBytes * (i - 1) + (j - 1)
            IN  IF s < Len(b) THEN b[Len(b) - s] ELSE 0]]

\* ------------------------------------------------------------------------
\* Key assembler
\* ------------------------------------------------------------------------
\* a: field name |-> input buffer.  Every field is checked before any is
\* written; the fields of the structure that are no input are left alone.
assemble(kOld, a) ==
    IF \A f \in DOMAIN a : import_ok(a[f], Len(kOld[f]), f \in ExactFields)
    THEN [ret |-> RET_OK,
          k |-> [f \in DOMAIN kOld |->
                    IF f \in DOMAIN a THEN to_words(a[f], Len(kOld[f]))
                    ELSE kOld[f]]]
    ELSE [ret |-> RET_ERR, k |-> kOld]

\* ------------------------------------------------------------------------
\* The caller's buffers
\* ------------------------------------------------------------------------
Pat(i) == (i * 7 + 3) % 256

\* lead zero bytes, the byte top, then rest bytes (zero, or a pattern).
MkBuf(lead, top, rest, fill) ==
    [i \in 1..(lead + 1 + rest) |->
        IF i <= lead THEN 0
        ELSE IF i = lead + 1 THEN top
        ELSE IF fill = 0 THEN 0 ELSE Pat(i - lead - 1)]

\* The modulus buffers of the public key functions, for a modulus of nb
\* bytes: every combination of leading zero bytes, top byte and length around
\* nb, the empty buffer, nb zero bytes, a second value of full width, a
\* buffer twice as long and a value of full width after nb zero bytes.
BufsFull(nb) ==
    {<<>>, MkBuf(0, 0, nb - 1, 0), MkBuf(0, 255, nb - 1, 0),
     MkBuf(0, 128, 2 * nb - 1, 1), MkBuf(nb, 128, nb - 1, 1)} \cup
    {MkBuf(lead, top, rest, 1) :
        lead \in 0..MaxLead, top \in {1, 127, 128, 255},
        rest \in {0, nb - 2, nb - 1, nb}}

\* The secret exponent buffers for an exponent of at most nb bytes: empty,
\* zero, one bit too long, and shorter and full values after leading zero
\* bytes.
BufsBounded(nb) ==
    {<<>>, MkBuf(0, 0, nb - 1, 0), MkBuf(0, 1, nb, 1)} \cup
    {MkBuf(lead, 128, rest, 1) :
        lead \in 0..MaxLead, rest \in {nb - 1 - MaxLead, nb - 1}}

\* Full width, one bit short, one bit over, full width after leading zero
\* bytes.
BufsExact(nb) ==
    {MkBuf(0, 128, nb - 1, 1), MkBuf(0, 127, nb - 1, 1), MkBuf(0, 1, nb, 0),
     MkBuf(MaxLead, 128, nb - 1, 1)}

\* Full width, one bit short, one bit over.
BufsExactP(nb) ==
    {MkBuf(0, 128, nb - 1, 1), MkBuf(0, 127, nb - 1, 1), MkBuf(0, 1, nb, 0)}

\* Full width, full width after leading zero bytes.
BufsExactQ(nb) ==
    {MkBuf(0, 255, nb - 1, 1), MkBuf(MaxLead, 128, nb - 1, 1)}

\* Zero, full width, one bit over.
BufsBounded3(nb) ==
    {MkBuf(0, 0, nb - 1, 0), MkBuf(0, 128, nb - 1, 1), MkBuf(0, 1, nb, 1)}

\* Zero, a shorter value padded to nb bytes with leading zero bytes, one
\* bit over.
BufsBoundedDq(nb) ==
    {MkBuf(0, 0, nb - 1, 0), MkBuf(MaxLead, 1, nb - 1 - MaxLead, 1),
     MkBuf(0, 1, nb, 1)}

\* Zero, full width after leading zero bytes.
BufsBoundedQinv(nb) ==
    {MkBuf(0, 0, nb - 1, 0), MkBuf(MaxLead, 128, nb - 1, 1)}

\* ------------------------------------------------------------------------
\* State
\* ------------------------------------------------------------------------
VARIABLES
    kind,      \* the type of the caller's key structure
    fresh,     \* the structure as it was before the first call
    k,         \* the structure
    state,     \* "Uninitialized" or "Initialized"
    ret,       \* <<>> before the first call, then <<return value>> of the last
    args,      \* the buffers of the last call, field name |-> buffer
    lastOk     \* the buffers of the last call that returned 0

vars == <<kind, fresh, k, state, ret, args, lastOk>>

Init ==
    /\ kind \in Kinds
    /\ \E g \in {0, 165} : fresh = Fresh(kind, g)
    /\ k = fresh
    /\ state = "Uninitialized"
    /\ ret = <<>>
    /\ args = <<>>
    /\ lastOk = <<>>

\* One call of the init function of the structure's type with the buffers a.
Call(a) ==
    \E r \in {assemble(k, a)} :
        /\ k' = r.k
        /\ ret' = <<r.ret>>
        /\ args' = a
        /\ state' = IF r.ret = RET_OK THEN "Initialized" ELSE state
        /\ lastOk' = IF r.ret = RET_OK THEN a ELSE lastOk
        /\ UNCHANGED <<kind, fresh>>

occ_rsa1024_init_pub_key ==
    /\ kind = "pub1024"
    /\ \E n \in BufsFull(128) : Call([n |-> n])

occ_rsa1024_init_key ==
    /\ kind = "key1024"
    /\ \E n \in BufsExact(128), d \in BufsBounded(128) :
          Call([n |-> n, d |-> d])

occ_rsa1024_init_crt_key ==
    /\ kind = "crt1024"
    /\ \E p \in BufsExactP(64), q \in BufsExactQ(64), dp \in BufsBounded3(64),
          dq \in BufsBoundedDq(64), qinv \in BufsBoundedQinv(64) :
          Call([p |-> p, q |-> q, dp |-> dp, dq |-> dq, qinv |-> qinv])

occ_rsa2048_init_pub_key ==
    /\ kind = "pub2048"
    /\ \E n \in BufsFull(256) : Call([n |-> n])

occ_rsa2048_init_key ==
    /\ kind = "key2048"
    /\ \E n \in BufsExact(256), d \in BufsBounded(256) :
          Call([n |-> n, d |-> d])

occ_rsa2048_init_crt_key ==
    /\ kind = "crt2048"
    /\ \E p \in BufsExactP(128), q \in BufsExactQ(128),
          dp \in BufsBounded3(128), dq \in BufsBoundedDq(128),
          qinv \in BufsBoundedQinv(128) :
          Call([p |-> p, q |-> q, dp |-> dp, dq |-> dq, qinv |-> qinv])

Next ==
    \/ occ_rsa1024_init_pub_key
    \/ occ_rsa1024_init_key
    \/ occ_rsa1024_init_crt_key
    \/ occ_rsa2048_init_pub_key
    \/ occ_rsa2048_init_key
    \/ occ_rsa2048_init_crt_key

Spec == Init /\ [][Next]_vars

TypeOK ==
    /\ kind \in Kinds
    /\ DOMAIN k = DOMAIN Layout(kind)
    /\ state \in {"Uninitialized", "Initialized"}
    /\ ret \in {<<>>, <<RET_OK>>, <<RET_ERR>>}

\* ------------------------------------------------------------------------
\* The documented widths, and the notions the properties are stated in.
\* None of these is used by the model above.
\* ------------------------------------------------------------------------
\* The width in bits the documentation gives for an input field of kd.
DocBits(kd) ==
    CASE kd \in {"pub1024", "key1024"} -> 1024
      [] kd = "crt1024" -> 512
      [] kd \in {"pub2048", "key2048"} -> 2048
      [] kd = "crt2048" -> 1024

DocBytes(kd) == DocBits(kd) \div 8

DocWords(kd) == DocBits(kd) \div 32

IsExact(f) == f \in {"n", "p", "q"}

AllZero(b) == \A i \in 1..Len(b) : b[i] = 0

\* Position of the most significant set bit of the number in b, 0 for zero.
EffBits(b) ==
    IF AllZero(b) THEN 0
    ELSE LET i == CHOOSE i \in 1..Len(b) :
                      b[i] # 0 /\ \A j \in 1..(i - 1) : b[j] = 0
             m == CHOOSE m \in 1..8 : 2 ^ (m - 1) <= b[i] /\ b[i] < 2 ^ m
         IN  8 * (Len(b) - i) + m

\* b without its leading zero bytes.
Strip(b) ==
    IF AllZero(b) THEN <<>>
    ELSE LET i == CHOOSE i \in 1..Len(b) :
                      b[i] # 0 /\ \A j \in 1..(i - 1) : b[j] = 0
         IN  [t \in 1..(Len(b) - i + 1) |-> b[i + t - 1]]

\* b with zero bytes put before it up to c bytes.
PadTo(b, c) == [t \in 1..c |-> IF t <= c - Len(b) THEN 0 ELSE b[t - (c - Len(b))]]

\* The big-endian bytes of a word array (least significant word first).
Export(w) ==
    [t \in 1..(4 * Len(w)) |->
        LET s == 4 * Len(w) - t IN w[(s \div 4) + 1][(s % 4) + 1]]

\* The width rule as the claims state it: on the effective bit length alone.
BitRule(kd, f, b) ==
    IF IsExact(f) THEN EffBits(b) = DocBits(kd) ELSE EffBits(b) <= DocBits(kd)

\* The width rule with the declared length within the field's capacity.
WidthRule(kd, f, b) == Len(b) <= DocBytes(kd) /\ BitRule(kd, f, b)

OthersValid(f) == \A g \in DOMAIN args \ {f} : WidthRule(kind, g, args[g])

Returned0 == ret = <<0>>

ReturnedErr == ret = <<-1>>

C3_AllFieldsOrError ==
    ret # <<>> =>
        /\ Returned0 <=> \A f \in DOMAIN args : WidthRule(kind, f, args[f])
        /\ ~Returned0 => ReturnedErr

\* A CRT call in which the last field alone failed, after four that validate.
C3_Witness ==
    /\ kind = "crt1024"
    /\ ReturnedErr
    /\ OthersValid("qinv")
    /\ ~WidthRule(kind, "qinv", args.qinv)

C5_OverlongRejected ==
    \A f \in DOMAIN args :
        /\ Len(args[f]) > DocBytes(kind) => ReturnedErr
        /\ (kind \in {"pub1024", "key1024", "crt1024"} /\ Len(args[f]) = 256)
              => ReturnedErr

\* A modulus of exactly 1024 bits after 128 zero bytes, 256 bytes in all,
\* was rejected by the 1024-bit public key function.
C5_Witness ==
    /\ kind = "pub1024"
    /\ ReturnedErr
    /\ Len(args.n) = 256
    /\ EffBits(args.n) = 1024

ClaimedLayout1024(kd) ==
    CASE kd \in {"pub1024", "pub2048"} -> [n |-> 32]
      [] kd \in {"key1024", "key2048"} -> [n |-> 32, d |-> 32]
      [] kd \in {"crt1024", "crt2048"} ->
            [p |-> 16, q |-> 16, dp |-> 16, dq |-> 16, qinv |-> 16]

\* The same with the modulus of the CRT key.
AmendedLayout1024(kd) ==
    CASE kd \in {"pub1024", "pub2048"} -> [n |-> 32]
      [] kd \in {"key1024", "key2048"} -> [n |-> 32, d |-> 32]
      [] kd \in {"crt1024", "crt2048"} ->
            [n |-> 32, p |-> 16, q |-> 16, dp |-> 16, dq |-> 16, qinv |-> 16]

Scale(kd) == IF kd \in {"pub2048", "key2048", "crt2048"} THEN 2 ELSE 1

HasLayout(x, words, scale) ==
    /\ DOMAIN x = DOMAIN words
    /\ \A f \in DOMAIN words :
          /\ Len(x[f]) = scale * words[f]
          /\ \A i \in 1..Len(x[f]) : Len(x[f][i]) = 4

\* C7 as stated: the public key is a 32-word modulus, the secret key a
\* 32-word modulus and a 32-word exponent, the CRT key two 16-word primes,
\* two 16-word exponents and a 16-word coefficient and nothing else; the
\* 2048-bit structures double every count; no structure stores 65537.
C7_Layout == HasLayout(k, ClaimedLayout1024(kind), Scale(kind))

\* C7 amended: as stated, except that the CRT key also holds a modulus n
\* of 32 words (64 for 2048 bits) before the primes, which no argument of
\* the CRT functions supplies.
C7_LayoutWithCrtModulus ==
    /\ HasLayout(k, AmendedLayout1024(kind), Scale(kind))
    /\ "e" \notin DOMAIN k

\* A 2048-bit CRT key after a successful call: a modulus of 64 words and
\* primes of 32 words.
C7_Witness ==
    /\ kind = "crt2048"
    /\ Returned0
    /\ Len(k.n) = 64
    /\ Len(k.p) = 32
    /\ Export(k.p) = args.p

\* ------------------------------------------------------------------------
\* C8
\* ------------------------------------------------------------------------
FullWidth(b) == Len(b) = DocBytes(kind) /\ b[1] >= 128

\* C8: buffers of exactly the expected byte length with the most
\* significant bit set are imported; an imported field has exactly the
\* field's word count, its big-endian export is the buffer zero-padded
\* above the supplied bytes, and for a buffer of full width the export is
\* the buffer itself and the most significant word has its top bit set.
C8_RoundTrip ==
    /\ (ret # <<>> /\ \A f \in DOMAIN args : FullWidth(args[f])) => Returned0
    /\ Returned0 =>
          \A f \in DOMAIN args :
              /\ Len(k[f]) = DocWords(kind)
              /\ Export(k[f]) = PadTo(args[f], DocBytes(kind))
              /\ FullWidth(args[f]) =>
                    /\ Export(k[f]) = args[f]
                    /\ k[f][DocWords(kind)][4] >= 128

\* A modulus and an exponent of full width were imported: the last byte of
\* each buffer is the least significant byte of the first word.
C8_Witness ==
    /\ kind = "key1024"
    /\ Returned0
    /\ FullWidth(args.n)
    /\ FullWidth(args.d)
    /\ k.d[1][1] = args.d[128]
    /\ k.d[32][4] = args.d[1]
    /\ k.d[1][1] # k.d[32][4]

\* ------------------------------------------------------------------------
\* C9
\* ------------------------------------------------------------------------
StripAll(a) == [f \in DOMAIN a |-> Strip(a[f])]

SameAsStripped ==
    /\ ret = <<assemble(fresh, StripAll(args)).ret>>
    /\ Returned0 =>
          /\ k = assemble(fresh, StripAll(args)).k
          /\ \A f \in DOMAIN args :
                Export(k[f]) = PadTo(Strip(args[f]), DocBytes(kind))

====
